---- MODULE Spec2Model ----
(***************************************************************************)
(* Local-cache / remote-sync reconciliation of the workout tracker.        *)
(*                                                                         *)
(* Two variants of workoutData.js exist in the repository:                 *)
(*   mode "A"  src/unnamed/part_000 (token in localStorage, part_001):     *)
(*             credential-gated read, pending-save queue, retry;            *)
(*   mode "B"  src/workoutData.js (token in the URL hash, tokenStorage.js):*)
(*             unconditional public read, no queue.                         *)
(* Both use the GitHub client of src/github.js.                             *)
(*                                                                         *)
(* Every async function is split at its awaits: the synchronous prefix is  *)
(* one action, the server handling a request is one action, and the        *)
(* continuation that runs when the response arrives is one action.         *)
(***************************************************************************)
EXTENDS Integers, Sequences, FiniteSets, TLC

\* ---------------------------------------------------------------- bounds
MaxSaves == 3      \* runs of saveWorkoutData, by the caller or by a retry
MaxQueueSaves == 7 \* the same, in the specification of the pending queue
MaxOverlapSaves == 2 \* the same, in the specification of overlapping saves
NumExt == 1        \* documents other writers commit, numbered -1 .. -NumExt
NumSlots == 2      \* call frames (only one is in flight unless overlap is on)

\* ------------------------------------------------------ program constants
MaxPending == 5    \* pending.slice(-5)

Docs == 1..MaxQueueSaves
ExtDocs == {-i : i \in 1..NumExt}
Slots == 1..NumSlots
Times == 0..MaxQueueSaves

\* ----------------------------------------------------------------- values
\* A JSON value the coordinator handles.  doc names the WorkoutDocument at
\* its core (0 is {workoutHistory: [], workoutDurations: {}}); stamps are the
\* timestamps of the {data, timestamp} objects wrapped around it, innermost
\* first (a plain WorkoutDocument has none); moji counts how often its
\* non-ASCII characters were decoded byte-for-byte instead of as UTF-8.
Value(d) == [doc |-> d, stamps |-> <<>>, moji |-> 0]

EmptyDocument == Value(0)

IsDocument(v) == v.stamps = <<>>

\* Even-numbered documents contain non-ASCII characters.
NonAscii(v) == (v.doc # 0 /\ v.doc % 2 = 0) \/ v.moji > 0

\* {data: v, timestamp: t} as a pending-queue entry
Entry(v, t) == [data |-> v, timestamp |-> t]

\* The same object seen as a value passed to saveWorkoutData.
EntryAsValue(e) == [e.data EXCEPT !.stamps = Append(@, e.timestamp)]

\* JSON.stringify / JSON.parse: a string either is the JSON text of a value
\* or does not parse.
JSONstringify(v) == [enc |-> "str", ok |-> TRUE, val |-> v]

Garbage == [enc |-> "str", ok |-> FALSE, val |-> EmptyDocument]

JSONparses(t) == t.enc = "str" /\ t.ok

JSONparse(t) == t.val

\* btoa(unescape(encodeURIComponent(s))): the file's bytes are the UTF-8
\* encoding of the string.
Utf8Encode(t) == [t EXCEPT !.enc = "utf8"]

\* response.json() of the raw endpoint decodes the bytes as UTF-8.
Utf8Decode(b) == [b EXCEPT !.enc = "str"]

\* atob(): one character per byte.
Atob(b) == [enc |-> "str", ok |-> b.ok,
            val |-> IF NonAscii(b.val) THEN [b.val EXCEPT !.moji = @ + 1] ELSE b.val]

NoBytes == Utf8Encode(Garbage)

\* The blob sha of the contents API is a hash of the file's bytes.
NullSha == [null |-> TRUE, blob |-> NoBytes]

ShaOf(b) == [null |-> FALSE, blob |-> b]


\* ------------------------------------------------------------------ state
VARIABLES
  mode,       \* "A" or "B": which variant of workoutData.js is deployed
  overlap,    \* whether the caller starts an operation while another is pending
  token,      \* whether the credential provider holds a token
  authToken,  \* github.js: whether setToken() has stored a token
  cache,      \* localStorage[CACHE_KEY]
  pending,    \* localStorage[PENDING_SAVES_KEY], absent read as []
  remote,     \* the file in the repository
  now,        \* the clock read by new Date(): it ticks when saveWorkoutData starts
  calls,      \* the call frames of the async functions
  budget,     \* how many runs of saveWorkoutData the behaviour may hold
  enqLog      \* every entry addPendingSave added since the queue was last cleared

vars == <<mode, overlap, token, authToken, cache, pending, remote, now, calls,
          budget, enqLog>>

\* What the model adds to the program's state.
aux == <<mode, overlap, budget>>

\* The item under CACHE_KEY, as the object its JSON text parses to.
NoCache == [present |-> FALSE, data |-> EmptyDocument, sha |-> NullSha, lastSync |-> 0]

CacheEntry(v, sha, t) == [present |-> TRUE, data |-> v, sha |-> sha, lastSync |-> t]

NoFile == [exists |-> FALSE, bytes |-> NoBytes]

File(b) == [exists |-> TRUE, bytes |-> b]

NoResp == [kind |-> "none", bytes |-> NoBytes, sha |-> NullSha]

ErrorResp == [kind |-> "error", bytes |-> NoBytes, sha |-> NullSha]

NotFoundResp == [kind |-> "notfound", bytes |-> NoBytes, sha |-> NullSha]

OkResp(b, sha) == [kind |-> "ok", bytes |-> b, sha |-> sha]

\* What an operation returns: save {success, error?}, retry {success, synced},
\* init the document.
SaveResult(ok, err) == [success |-> ok, error |-> err, synced |-> 0, data |-> EmptyDocument]

RetryResult(ok, n) == [success |-> ok, error |-> "none", synced |-> n, data |-> EmptyDocument]

InitResult(v) == [success |-> TRUE, error |-> "none", synced |-> 0, data |-> v]

\* What a returned initWorkoutData saw and gave: the token, the response to
\* its read, the queue, and the document it returned.
NoInit == [tok |-> FALSE, resp |-> NoResp, pend |-> <<>>, ret |-> EmptyDocument]

\* An operation that returned: which one, on what value, and whether it
\* reported a remote write.
NoOp == [op |-> "none", data |-> EmptyDocument, synced |-> FALSE, init |-> NoInit]

\* Mutant of Synced: the test on the error message is inverted.
SyncedWithError(r) == r.success /\ r.error # "none"

\* result.success && !result.error
Synced(r) == r.success /\ r.error = "none"

\* lastSync as getSyncStatus reports it: null, or the time in the cache.
NoTime == [null |-> TRUE, at |-> 0]

Time(t) == [null |-> FALSE, at |-> t]

\* The object getSyncStatus returns.  Variant A's has no hasToken and
\* variant B's no hasPending and pendingCount: those are left as here.
NoStatus == [hasPending |-> FALSE, pendingCount |-> 0, lastSync |-> NoTime,
             hasToken |-> FALSE]

\* A call frame.  op, pc, data, local, latestSha, resp and result are the
\* function's position and locals; the rest records what the call saw and
\* did, for the properties below.
IdleFrame ==
  [op |-> "none", pc |-> "idle", data |-> EmptyDocument, viaRetry |-> FALSE,
   local |-> NoCache, latestSha |-> NullSha, resp |-> NoResp,
   result |-> SaveResult(FALSE, "none"), status |-> NoStatus,
   tokenAtStart |-> FALSE, cacheAtStart |-> NoCache, pendingAtStart |-> <<>>,
   after |-> NoOp, remoteCalls |-> 0,
   wrote |-> FALSE, stale |-> FALSE, changed |-> FALSE, disturbed |-> FALSE]

\* The frame of a call that starts in slot s; after is the operation that
\* returned there before it.
NewFrame(s, op, v) ==
  [IdleFrame EXCEPT !.op = op, !.data = v, !.tokenAtStart = token,
                    !.cacheAtStart = cache, !.pendingAtStart = pending,
                    !.after = [op |-> calls[s].op, data |-> calls[s].data,
                               synced |-> Synced(calls[s].result),
                               init |-> IF calls[s].op = "init" /\ op = "init"
                                          THEN [tok |-> calls[s].tokenAtStart,
                                                resp |-> calls[s].resp,
                                                pend |-> calls[s].pendingAtStart,
                                                ret |-> calls[s].result.data]
                                          ELSE NoInit]]

Active(s) == calls[s].pc \notin {"idle", "done", "threw"}

\* The caller starts an operation in the first free frame; unless it
\* overlaps its calls, only when nothing else is pending.
CanStart(s) ==
  /\ ~Active(s)
  /\ \A r \in Slots : r < s => Active(r)
  /\ overlap \/ \A r \in Slots : ~Active(r)

TypeOK ==
  /\ mode \in {"A", "B"}
  /\ overlap \in BOOLEAN
  /\ token \in BOOLEAN
  /\ authToken \in BOOLEAN
  /\ cache.present \in BOOLEAN
  /\ Len(pending) <= MaxPending
  /\ remote.exists \in BOOLEAN
  /\ now \in Times
  /\ DOMAIN calls = Slots

\* ------------------------------------------------------------------- init
\* A fresh browser profile: nothing in localStorage, no token set in the
\* client.  The repository either has no data file yet or holds a document.
Init ==
  /\ mode \in {"A", "B"}
  /\ overlap = FALSE
  /\ token \in BOOLEAN
  /\ authToken = FALSE
  /\ cache = NoCache
  /\ pending = <<>>
  /\ remote \in {NoFile} \cup {File(Utf8Encode(JSONstringify(Value(d)))) : d \in ExtDocs}
  /\ now = 0
  /\ calls = [s \in Slots |-> IdleFrame]
  /\ budget = MaxSaves
  /\ enqLog = <<>>

\* ------------------------------------------------------- pending-save queue
\* Mutant of Trim: keeps the first five entries.
TrimHead(q) == IF Len(q) <= MaxPending THEN q ELSE SubSeq(q, 1, MaxPending)

\* pending.slice(-5)
Trim(q) == IF Len(q) <= MaxPending THEN q ELSE SubSeq(q, Len(q) - MaxPending + 1, Len(q))

\* Mutant of AddPendingSave: nothing is queued.
AddNothing(q, v, t) == q

\* addPendingSave(data): the new contents of PENDING_SAVES_KEY
AddPendingSave(q, v, t) == Trim(Append(q, Entry(v, t)))

\* Mutant of ClearPendingSaves: only the oldest entry is removed.
ClearOldestOnly == IF Len(pending) = 0 THEN <<>> ELSE Tail(pending)

\* clearPendingSaves()
ClearPendingSaves == <<>>


\* ------------------------------------------------------------ returning
\* The call in frame s returns res to its caller.
Return(s, f, res) ==
  calls' = [calls EXCEPT ![s] = [f EXCEPT !.pc = "done", !.result = res]]

\* An exception leaves the call in frame s: its caller gets no result.
Throw(s, f) ==
  calls' = [calls EXCEPT ![s] = [f EXCEPT !.pc = "threw"]]

\* saveWorkoutData (mode A) returns r at time t: with an error message it has
\* called addPendingSave(data), without one clearPendingSaves().  When it
\* was called by retryPendingSaves, the rest of retryPendingSaves runs on
\* its result before anything else does.
SaveReturnsA(s, f, r, t) ==
  LET q == IF r.error = "none" THEN ClearPendingSaves
                               ELSE AddPendingSave(pending, f.data, t)
      synced == Synced(r) IN
  /\ pending' = IF f.viaRetry /\ synced THEN ClearPendingSaves ELSE q
  /\ enqLog' = IF r.error = "none" THEN <<>> ELSE Append(enqLog, Entry(f.data, t))
  /\ Return(s, f, IF f.viaRetry THEN RetryResult(synced, IF synced THEN 1 ELSE 0)
                                ELSE r)

\* ------------------------------------------------ mode A: saveWorkoutData
\* Mutant of LocalEntryA: the sha the cache held is dropped.
LocalEntryNoSha(v, t) == CacheEntry(v, NullSha, t)

\* The cache entry written before any network attempt, at time t.
LocalEntryA(v, t) == CacheEntry(v, IF cache.present THEN cache.sha ELSE NullSha, t)

\* Mutant of SaveTryA: getFile is awaited outside the try block.
SaveTryOnlyCommitA == {"commitFile"}

\* The awaited calls inside the try block of saveWorkoutData.
SaveTryA == {"getFile", "commitFile"}

\* saveWorkoutData(data) up to its first await; f is the frame of the call.
\* setToken(token) precedes getFile, so getFile's own token check passes.
SaveBeginA(s, f) ==
  LET g == [f EXCEPT !.local = LocalEntryA(f.data, now')] IN
  /\ cache' = g.local
  /\ IF ~token
       THEN /\ SaveReturnsA(s, g, SaveResult(TRUE, "notoken"), now')
            /\ UNCHANGED authToken
       ELSE /\ authToken' = TRUE
            /\ calls' = [calls EXCEPT ![s] =
                           [g EXCEPT !.pc = "getFile", !.remoteCalls = @ + 1]]
            /\ UNCHANGED <<pending, enqLog>>
  /\ UNCHANGED <<aux, token, remote>>

\* The caller saves a document it has not saved before.
SaveStartA(s) ==
  /\ mode = "A"
  /\ CanStart(s)
  /\ now < budget
  /\ now' = now + 1
  /\ SaveBeginA(s, NewFrame(s, "save", Value(now')))

\* getFile returned (or threw): the catch block, or on to commitFile.
SaveGotFileA(s) ==
  LET f == calls[s] IN
  /\ mode = "A"
  /\ f.op \in {"save", "retry"}
  /\ f.pc = "gotFile"
  /\ IF f.resp.kind = "error"
       THEN IF "getFile" \in SaveTryA
              THEN SaveReturnsA(s, f, SaveResult(TRUE, "syncfailed"), now)
              ELSE Throw(s, f) /\ UNCHANGED <<pending, enqLog>>
       ELSE /\ calls' = [calls EXCEPT ![s] =
                           [f EXCEPT !.pc = "commitFile",
                                     !.latestSha = IF f.resp.kind = "ok"
                                                     THEN f.resp.sha ELSE NullSha,
                                     !.remoteCalls = @ + 1]]
            /\ UNCHANGED <<pending, enqLog>>
  /\ UNCHANGED <<aux, token, authToken, cache, remote, now>>

\* Mutant of SyncedEntryA: the sha of the commit is not stored.
UnsyncedEntry(f) == f.local

\* The cache entry rewritten after a successful commit: the call's own
\* cache object with the new sha.
SyncedEntryA(f) == [f.local EXCEPT !.sha = f.resp.sha]

\* commitFile returned (or threw).
SaveCommittedA(s) ==
  LET f == calls[s] IN
  /\ mode = "A"
  /\ f.op \in {"save", "retry"}
  /\ f.pc = "committed"
  /\ IF f.resp.kind = "error"
       THEN /\ IF "commitFile" \in SaveTryA
                 THEN SaveReturnsA(s, f, SaveResult(TRUE, "syncfailed"), now)
                 ELSE Throw(s, f) /\ UNCHANGED <<pending, enqLog>>
            /\ UNCHANGED cache
       ELSE /\ cache' = SyncedEntryA(f)
            /\ SaveReturnsA(s, f, SaveResult(TRUE, "none"), now)
  /\ UNCHANGED <<aux, token, authToken, remote, now>>

\* ---------------------------------------------- mode A: retryPendingSaves
\* The value retryPendingSaves hands to saveWorkoutData.
LatestData(q) == EntryAsValue(q[Len(q)])

\* Mutant of RetryEarly: the token is not checked.
RetryEarlyNoTokenCheck(q, tok) == IF Len(q) = 0 THEN "empty" ELSE "run"

\* The early returns of retryPendingSaves: nothing queued, then no token.
RetryEarly(q, tok) ==
  IF Len(q) = 0 THEN "empty" ELSE IF ~tok THEN "notoken" ELSE "run"

RetryStart(s) ==
  /\ mode = "A"
  /\ CanStart(s)
  /\ IF RetryEarly(pending, token) = "empty"
       THEN /\ Return(s, NewFrame(s, "retry", EmptyDocument), RetryResult(TRUE, 0))
            /\ UNCHANGED <<aux, token, authToken, cache, pending, remote, now, enqLog>>
       ELSE IF RetryEarly(pending, token) = "notoken"
         THEN /\ Return(s, NewFrame(s, "retry", EmptyDocument), RetryResult(FALSE, 0))
              /\ UNCHANGED <<aux, token, authToken, cache, pending, remote, now, enqLog>>
         ELSE /\ now < budget
              /\ now' = now + 1
              /\ SaveBeginA(s, [NewFrame(s, "retry", LatestData(pending))
                                  EXCEPT !.viaRetry = TRUE])

\* ------------------------------------------------ mode A: initWorkoutData
\* Mutant of Fallback: the cache is not consulted.
FallbackEmpty == EmptyDocument

\* The fallback of initWorkoutData: the cached document, or the empty one.
Fallback == IF cache.present THEN cache.data ELSE EmptyDocument

\* Mutant of InitReadsRemoteA: the repository is read with or without a token.
InitReadsAlways(tok) == TRUE

\* if (token): initWorkoutData reads the repository only with a token.
InitReadsRemoteA(tok) == tok

\* Mutant of InitTryA: JSON.parse runs outside the try block.
InitTryOnlyGetFileA == {"getFile"}

\* The calls inside the try block of initWorkoutData.
InitTryA == {"getFile", "JSON.parse"}

\* Mutant of InitReturnA: the document the cache held before is returned.
InitReturnStale(parsed) == Fallback

\* return data: the document just parsed and cached.
InitReturnA(parsed) == parsed

\* initWorkoutData() up to its first await: with no token it never reads
\* the repository.
InitStartA(s) ==
  /\ mode = "A"
  /\ CanStart(s)
  /\ IF InitReadsRemoteA(token)
       THEN /\ authToken' = TRUE
            /\ calls' = [calls EXCEPT ![s] =
                  [NewFrame(s, "init", EmptyDocument)
                     EXCEPT !.pc = "getFile", !.remoteCalls = @ + 1]]
       ELSE /\ Return(s, NewFrame(s, "init", EmptyDocument), InitResult(Fallback))
            /\ UNCHANGED authToken
  /\ UNCHANGED <<aux, token, cache, pending, remote, now, enqLog>>

\* getFile returned (or threw).  remote.content is atob() of the file.
InitGotFileA(s) ==
  LET f == calls[s]
      content == Atob(f.resp.bytes) IN
  /\ mode = "A"
  /\ f.op = "init"
  /\ f.pc = "gotFile"
  /\ IF f.resp.kind = "ok" /\ JSONparses(content)
       THEN /\ cache' = CacheEntry(JSONparse(content), f.resp.sha, now)
            /\ Return(s, f, InitResult(InitReturnA(JSONparse(content))))
       ELSE /\ IF f.resp.kind = "notfound" \/
                  (IF f.resp.kind = "error" THEN "getFile" ELSE "JSON.parse") \in InitTryA
                 THEN Return(s, f, InitResult(Fallback))
                 ELSE Throw(s, f)
            /\ UNCHANGED cache
  /\ UNCHANGED <<aux, token, authToken, pending, remote, now, enqLog>>

\* ------------------------------------------------------------------ mode B
\* The calls inside the try block of initWorkoutData.
InitTryB == {"fetch", "response.json"}

\* initWorkoutData() up to its first await: always fetches the raw file.
InitStartB(s) ==
  /\ mode = "B"
  /\ CanStart(s)
  /\ calls' = [calls EXCEPT ![s] =
        [NewFrame(s, "init", EmptyDocument)
           EXCEPT !.pc = "fetch", !.remoteCalls = @ + 1]]
  /\ UNCHANGED <<aux, token, authToken, cache, pending, remote, now, enqLog>>

\* raw.githubusercontent.com answers: the file, not ok, or the fetch fails.
ServeRaw(s) ==
  /\ calls[s].pc = "fetch"
  /\ \E r \in {ErrorResp,
               IF remote.exists THEN OkResp(remote.bytes, NullSha)
                                ELSE NotFoundResp} :
       calls' = [calls EXCEPT ![s].pc = "fetched", ![s].resp = r]
  /\ UNCHANGED <<aux, token, authToken, cache, pending, remote, now, enqLog>>

\* fetch returned (or threw); response.json() decodes UTF-8 and parses.
InitFetchedB(s) ==
  LET f == calls[s]
      text == Utf8Decode(f.resp.bytes) IN
  /\ mode = "B"
  /\ f.op = "init"
  /\ f.pc = "fetched"
  /\ IF f.resp.kind = "ok" /\ JSONparses(text)
       THEN /\ cache' = CacheEntry(JSONparse(text), NullSha, now)
            /\ Return(s, f, InitResult(JSONparse(text)))
       ELSE /\ IF f.resp.kind = "notfound" \/
                  (IF f.resp.kind = "error" THEN "fetch" ELSE "response.json") \in InitTryB
                 THEN Return(s, f, InitResult(Fallback))
                 ELSE Throw(s, f)
            /\ UNCHANGED cache
  /\ UNCHANGED <<aux, token, authToken, pending, remote, now, enqLog>>

\* The cache entry written before any network attempt; it has no sha.
LocalEntryB(v, t) == CacheEntry(v, NullSha, t)

\* Mutant of NoTokenB: success is reported, as variant A does.
NoTokenSuccess == SaveResult(TRUE, "notoken")

\* What saveWorkoutData returns when loadToken() finds no token.
NoTokenB == SaveResult(FALSE, "notoken")

\* The awaited calls inside the try block of saveWorkoutData.
SaveTryB == {"getFile", "commitFile"}

\* saveWorkoutData(data) up to its first await.
SaveStartB(s) ==
  LET f == [NewFrame(s, "save", Value(now')) EXCEPT
              !.local = LocalEntryB(Value(now'), now')] IN
  /\ mode = "B"
  /\ CanStart(s)
  /\ now < budget
  /\ now' = now + 1
  /\ cache' = f.local
  /\ IF ~token
       THEN /\ Return(s, f, NoTokenB)
            /\ UNCHANGED authToken
       ELSE /\ authToken' = TRUE
            /\ calls' = [calls EXCEPT ![s] =
                           [f EXCEPT !.pc = "getFile", !.remoteCalls = @ + 1]]
  /\ UNCHANGED <<aux, token, pending, remote, enqLog>>

\* getFile returned (or threw).
SaveGotFileB(s) ==
  LET f == calls[s] IN
  /\ mode = "B"
  /\ f.op = "save"
  /\ f.pc = "gotFile"
  /\ IF f.resp.kind = "error"
       THEN IF "getFile" \in SaveTryB
              THEN Return(s, f, SaveResult(FALSE, "syncfailed"))
              ELSE Throw(s, f)
       ELSE calls' = [calls EXCEPT ![s] =
                        [f EXCEPT !.pc = "commitFile",
                                  !.latestSha = IF f.resp.kind = "ok"
                                                  THEN f.resp.sha ELSE NullSha,
                                  !.remoteCalls = @ + 1]]
  /\ UNCHANGED <<aux, token, authToken, cache, pending, remote, now, enqLog>>

\* commitFile returned (or threw).
SaveCommittedB(s) ==
  LET f == calls[s] IN
  /\ mode = "B"
  /\ f.op = "save"
  /\ f.pc = "committed"
  /\ IF f.resp.kind = "error"
       THEN IF "commitFile" \in SaveTryB
              THEN Return(s, f, SaveResult(FALSE, "syncfailed"))
              ELSE Throw(s, f)
       ELSE Return(s, f, SaveResult(TRUE, "none"))
  /\ UNCHANGED <<aux, token, authToken, cache, pending, remote, now, enqLog>>

\* ---------------------------------------------------------- getSyncStatus
\* lastSync of the parsed cache entry, null when CACHE_KEY is absent
LastSync == IF cache.present THEN Time(cache.lastSync) ELSE NoTime

\* Mutant of SyncStatusA: one queued save is not reported.
SyncStatusOffByOne ==
  [NoStatus EXCEPT !.hasPending = Len(pending) > 1,
                   !.pendingCount = Len(pending),
                   !.lastSync = LastSync]

\* getSyncStatus() of variant A
SyncStatusA ==
  [NoStatus EXCEPT !.hasPending = Len(pending) > 0,
                   !.pendingCount = Len(pending),
                   !.lastSync = LastSync]

\* getSyncStatus() of variant B
SyncStatusB ==
  [NoStatus EXCEPT !.hasToken = token,
                   !.lastSync = LastSync]

\* getSyncStatus() is synchronous: the UI may call it at any moment, also
\* while an asynchronous call is pending.
GetSyncStatus(s) ==
  /\ ~Active(s)
  /\ \A r \in Slots : r < s => Active(r)
  /\ calls' = [calls EXCEPT ![s] =
        [NewFrame(s, "status", EmptyDocument)
           EXCEPT !.pc = "done",
                  !.status = IF mode = "A" THEN SyncStatusA ELSE SyncStatusB]]
  /\ UNCHANGED <<aux, token, authToken, cache, pending, remote, now, enqLog>>

\* ------------------------------------------------------------ github.js
\* The request of getFile is answered: the file, 404, or a failure.
ServeGetFile(s) ==
  /\ calls[s].pc = "getFile"
  /\ \E r \in {ErrorResp,
               IF remote.exists THEN OkResp(remote.bytes, ShaOf(remote.bytes))
                                ELSE NotFoundResp} :
       calls' = [calls EXCEPT ![s].pc = "gotFile", ![s].resp = r]
  /\ UNCHANGED <<aux, token, authToken, cache, pending, remote, now, enqLog>>

\* The sha sent with the PUT is the blob being replaced; none creates the file.
PreconditionHolds(sha) ==
  IF remote.exists THEN ~sha.null /\ sha = ShaOf(remote.bytes) ELSE sha.null

\* JSON.stringify(data, null, 2), as the bytes commitFile uploads
Content(v) == Utf8Encode(JSONstringify(v))

\* The request of commitFile is answered.  A request that meets the
\* precondition replaces the file, and its response may still be lost; any
\* other request fails and changes nothing.
ServeCommitFile(s) ==
  LET f == calls[s]
      ok == PreconditionHolds(f.latestSha)
      b == Content(f.data) IN
  /\ f.pc = "commitFile"
  /\ \E applied \in {FALSE, ok}, lost \in BOOLEAN :
       /\ ~applied => lost
       /\ remote' = IF applied THEN File(b) ELSE remote
       /\ calls' = [r \in Slots |->
            IF r = s
              THEN [f EXCEPT !.pc = "committed",
                             !.resp = IF lost THEN ErrorResp ELSE OkResp(b, ShaOf(b)),
                             !.wrote = TRUE, !.stale = ~ok,
                             !.changed = (remote' # remote)]
              ELSE [calls[r] EXCEPT !.disturbed = @ \/ (calls[r].wrote /\ remote' # remote)]]
  /\ UNCHANGED <<aux, token, authToken, cache, pending, now, enqLog>>

\* ------------------------------------------------------------ environment
RemoteContents == {Content(Value(d)) : d \in ExtDocs} \cup {Utf8Encode(Garbage)}

\* Another writer commits to the file.
ExternalWrite(b) ==
  /\ remote # File(b)
  /\ remote' = File(b)
  /\ calls' = [r \in Slots |-> [calls[r] EXCEPT !.disturbed = @ \/ calls[r].wrote]]
  /\ UNCHANGED <<aux, token, authToken, cache, pending, now, enqLog>>

\* saveToken(token)
SaveToken ==
  /\ ~token
  /\ token' = TRUE
  /\ UNCHANGED <<aux, authToken, cache, pending, remote, now, calls, enqLog>>

\* clearToken()
ClearToken ==
  /\ token
  /\ token' = FALSE
  /\ UNCHANGED <<aux, authToken, cache, pending, remote, now, calls, enqLog>>

Next ==
  \/ \E s \in Slots : InitStartA(s)
  \/ \E s \in Slots : InitGotFileA(s)
  \/ \E s \in Slots : SaveStartA(s)
  \/ \E s \in Slots : SaveGotFileA(s)
  \/ \E s \in Slots : SaveCommittedA(s)
  \/ \E s \in Slots : RetryStart(s)
  \/ \E s \in Slots : InitStartB(s)
  \/ \E s \in Slots : ServeRaw(s)
  \/ \E s \in Slots : InitFetchedB(s)
  \/ \E s \in Slots : SaveStartB(s)
  \/ \E s \in Slots : SaveGotFileB(s)
  \/ \E s \in Slots : SaveCommittedB(s)
  \/ \E s \in Slots : ServeGetFile(s)
  \/ \E s \in Slots : ServeCommitFile(s)
  \/ \E b \in RemoteContents : ExternalWrite(b)
  \/ SaveToken
  \/ ClearToken

Spec == Init /\ [][Next]_vars

\* The pending queue under a longer run of saves and retries: variant A
\* against a repository no one else writes to.  initWorkoutData, which never
\* touches the queue, is left out.
InitQueue ==
  /\ mode = "A"
  /\ overlap = FALSE
  /\ token \in BOOLEAN
  /\ authToken = FALSE
  /\ cache = NoCache
  /\ pending = <<>>
  /\ remote = NoFile
  /\ now = 0
  /\ calls = [s \in Slots |-> IdleFrame]
  /\ budget = MaxQueueSaves
  /\ enqLog = <<>>

NextQueue ==
  \/ \E s \in Slots : SaveStartA(s)
  \/ \E s \in Slots : SaveGotFileA(s)
  \/ \E s \in Slots : SaveCommittedA(s)
  \/ \E s \in Slots : RetryStart(s)
  \/ \E s \in Slots : ServeGetFile(s)
  \/ \E s \in Slots : ServeCommitFile(s)
  \/ SaveToken
  \/ ClearToken

SpecQueue == InitQueue /\ [][NextQueue]_vars

\* The status display polling getSyncStatus between saves and retries of
\* either variant.  initWorkoutData and other writers are left out.
NextStatus ==
  \/ \E s \in Slots : GetSyncStatus(s)
  \/ \E s \in Slots : SaveStartA(s)
  \/ \E s \in Slots : SaveGotFileA(s)
  \/ \E s \in Slots : SaveCommittedA(s)
  \/ \E s \in Slots : RetryStart(s)
  \/ \E s \in Slots : SaveStartB(s)
  \/ \E s \in Slots : SaveGotFileB(s)
  \/ \E s \in Slots : SaveCommittedB(s)
  \/ \E s \in Slots : ServeGetFile(s)
  \/ \E s \in Slots : ServeCommitFile(s)
  \/ SaveToken
  \/ ClearToken

SpecStatus == Init /\ [][NextStatus]_vars

\* A caller that does not wait for one save before it starts the next:
\* saves of either variant overlap, in a repository no one else writes to.
InitOverlap ==
  /\ mode \in {"A", "B"}
  /\ overlap = TRUE
  /\ token \in BOOLEAN
  /\ authToken = FALSE
  /\ cache = NoCache
  /\ pending = <<>>
  /\ remote \in {NoFile} \cup {File(Content(Value(d))) : d \in ExtDocs}
  /\ now = 0
  /\ calls = [s \in Slots |-> IdleFrame]
  /\ budget = MaxOverlapSaves
  /\ enqLog = <<>>

NextOverlap ==
  \/ \E s \in Slots : SaveStartA(s)
  \/ \E s \in Slots : SaveGotFileA(s)
  \/ \E s \in Slots : SaveCommittedA(s)
  \/ \E s \in Slots : SaveStartB(s)
  \/ \E s \in Slots : SaveGotFileB(s)
  \/ \E s \in Slots : SaveCommittedB(s)
  \/ \E s \in Slots : ServeGetFile(s)
  \/ \E s \in Slots : ServeCommitFile(s)
  \/ SaveToken
  \/ ClearToken

SpecOverlap == InitOverlap /\ [][NextOverlap]_vars

\* Retrying until the queue is synced.  Variant A, one call at a time, in a
\* repository no one else writes to.  The caller saves while there is no
\* token, which fills the queue; once a token is saved it stays, every
\* request is answered, and the caller only retries.
InitLive ==
  /\ mode = "A"
  /\ overlap = FALSE
  /\ token = FALSE
  /\ authToken = FALSE
  /\ cache = NoCache
  /\ pending = <<>>
  /\ remote \in {NoFile} \cup {File(Content(Value(d))) : d \in ExtDocs}
  /\ now = 0
  /\ calls = [s \in Slots |-> IdleFrame]
  /\ budget = MaxQueueSaves
  /\ enqLog = <<>>

\* A save while there is no token; the last tick of the clock is left to
\* the retry.
SaveStartLive(s) ==
  /\ ~token
  /\ now + 1 < budget
  /\ SaveStartA(s)

\* The repository is reachable: getFile gets an answer.
ServeGetFileOK(s) ==
  /\ ServeGetFile(s)
  /\ calls'[s].resp.kind # "error"

\* The repository is reachable: a PUT that meets the precondition is
\* applied and its response arrives.
ServeCommitFileOK(s) ==
  /\ ServeCommitFile(s)
  /\ PreconditionHolds(calls[s].latestSha) => calls'[s].resp.kind = "ok"

NextLive ==
  \/ \E s \in Slots : SaveStartLive(s)
  \/ \E s \in Slots : RetryStart(s)
  \/ \E s \in Slots : SaveGotFileA(s)
  \/ \E s \in Slots : SaveCommittedA(s)
  \/ \E s \in Slots : ServeGetFileOK(s)
  \/ \E s \in Slots : ServeCommitFileOK(s)
  \/ SaveToken

\* retryPendingSaves keeps being called, requests are answered, and the
\* continuation of an await runs once its promise has settled.
FairLive ==
  /\ WF_vars(\E s \in Slots : RetryStart(s))
  /\ WF_vars(\E s \in Slots : SaveGotFileA(s))
  /\ WF_vars(\E s \in Slots : SaveCommittedA(s))
  /\ WF_vars(\E s \in Slots : ServeGetFileOK(s))
  /\ WF_vars(\E s \in Slots : ServeCommitFileOK(s))

SpecLive == InitLive /\ [][NextLive]_vars /\ FairLive


\* ================================================================ claims
Done(s) == calls[s].pc = "done"

Min(a, b) == IF a < b THEN a ELSE b

\* C1: variant A: when save(d) has returned, whatever its remote leg did, and
\* init() is the next operation and runs with no token, init() returns d.
C1_LocalFirstA ==
  \A s \in Slots :
    LET f == calls[s] IN
    (mode = "A" /\ Done(s) /\ f.op = "init" /\ ~f.tokenAtStart /\ f.after.op = "save")
      => f.result.data = f.after.data

\* C1 witness: such an init() has returned a non-ASCII document whose save
\* reached the repository, which by now holds something else.
C1_Witness ==
  \E s \in Slots :
    LET f == calls[s] IN
    /\ mode = "A" /\ Done(s) /\ f.op = "init" /\ ~f.tokenAtStart
    /\ f.after.op = "save" /\ f.after.synced
    /\ f.result.data = Value(2)
    /\ remote # File(Content(Value(2)))


\* C2 as stated: variant B: when save(d) has returned without a remote write
\* (no token, or the remote leg failed) and init() is the next operation and
\* runs with no token, init() returns d whether its own read succeeds or not.
C2_LocalFirstB_Original ==
  \A s \in Slots :
    LET f == calls[s] IN
    (mode = "B" /\ Done(s) /\ f.op = "init" /\ ~f.tokenAtStart
       /\ f.after.op = "save" /\ ~f.after.synced)
      => f.result.data = f.after.data

\* C2 amended: such an init() returns d when its read of the raw file fails
\* (the fetch fails, the response is not ok, or the body does not parse);
\* when the read succeeds it returns the document read from the repository.
C2_LocalFirstB ==
  \A s \in Slots :
    LET f == calls[s]
        body == Utf8Decode(f.resp.bytes) IN
    (mode = "B" /\ Done(s) /\ f.op = "init" /\ ~f.tokenAtStart
       /\ f.after.op = "save" /\ ~f.after.synced)
      => f.result.data = IF f.resp.kind = "ok" /\ body.ok THEN body.val
                                                          ELSE f.after.data

\* C2 witness: the fetch of such an init() failed while the repository held
\* another document, and init() returned the saved one.
C2_Witness ==
  \E s \in Slots :
    LET f == calls[s] IN
    /\ mode = "B" /\ Done(s) /\ f.op = "init" /\ ~f.tokenAtStart
    /\ f.after.op = "save" /\ ~f.after.synced
    /\ f.resp.kind = "error"
    /\ remote.exists /\ remote.bytes.ok
    /\ f.result.data = Value(1)

\* C3: variant A: the queue never holds more than 5 entries, and they are
\* the last ones added since it was last cleared, in the order they were
\* added; after 7 failed saves of documents 1..7 it holds 3,4,5,6,7.
C3_QueueBound ==
  /\ Len(pending) <= 5
  /\ Len(pending) = Min(Len(enqLog), 5)
  /\ \A i \in 1..Len(pending) : pending[i] = enqLog[Len(enqLog) - Len(pending) + i]
  /\ (Len(enqLog) = 7 /\ \A i \in 1..7 : enqLog[i].data = Value(i))
       => [i \in 1..Len(pending) |-> pending[i].data]
            = <<Value(3), Value(4), Value(5), Value(6), Value(7)>>

\* C3 witness: 7 failed saves of documents 1..7 since the queue was empty.
C3_Witness ==
  /\ Len(enqLog) = 7
  /\ \A i \in 1..7 : enqLog[i].data = Value(i)
  /\ Len(pending) = 5
  /\ pending[1].data = Value(3)
  /\ pending[5].data = Value(7)

\* A call whose commitFile returned normally.
WriteSucceeded(f) == f.wrote /\ f.resp.kind = "ok"

\* C4: variant A: when the commitFile of a save() or of a retryPendingSaves()
\* has succeeded, the queue is empty once the operation has returned.
C4_SuccessEmptiesQueue ==
  \A s \in Slots :
    LET f == calls[s] IN
    (mode = "A" /\ Done(s) /\ f.op \in {"save", "retry"} /\ WriteSucceeded(f))
      => Len(pending) = 0

\* C4 witness: a retry that found 5 entries queued has written remotely and
\* returned {success: true, synced: 1}.
C4_Witness ==
  \E s \in Slots :
    LET f == calls[s] IN
    /\ mode = "A" /\ Done(s) /\ WriteSucceeded(f)
    /\ f.op = "retry" /\ Len(f.pendingAtStart) = 5
    /\ f.result = RetryResult(TRUE, 1)

\* The same for a save that found 3 entries queued.
C4_WitnessSave ==
  \E s \in Slots :
    LET f == calls[s] IN
    /\ mode = "A" /\ Done(s) /\ WriteSucceeded(f)
    /\ f.op = "save" /\ Len(f.pendingAtStart) = 3

\* C5: when the commitFile of save(d) reaches the repository with a sha that
\* is not the file's current one, the file stays as it is, the cache holds d,
\* and variant A queues d and returns success with an error message while
\* variant B returns failure with an error message.
C5_StaleWrite ==
  \A s \in Slots :
    LET f == calls[s] IN
    (Done(s) /\ f.op = "save" /\ f.wrote /\ f.stale)
      => /\ ~f.changed
         /\ cache.present /\ cache.data = f.data
         /\ f.result.error # "none"
         /\ mode = "A" => /\ f.result.success
                          /\ Len(pending) = Min(Len(f.pendingAtStart) + 1, 5)
                          /\ pending[Len(pending)].data = f.data
         /\ mode = "B" => /\ ~f.result.success
                          /\ Len(pending) = 0

\* C5 witness: a save of variant A whose write was stale has returned, with
\* something queued before it.
C5_Witness ==
  \E s \in Slots :
    LET f == calls[s] IN
    /\ mode = "A" /\ Done(s) /\ f.op = "save" /\ f.wrote /\ f.stale
    /\ Len(f.pendingAtStart) > 0


\* C6 as stated: variant A: a retryPendingSaves() that ran the save (entries
\* queued, token present) and did not sync returns {success: false,
\* synced: 0} and leaves the queue exactly as it found it.
C6_FailedRetryKeepsQueue ==
  \A s \in Slots :
    LET f == calls[s] IN
    (mode = "A" /\ Done(s) /\ f.op = "retry" /\ f.viaRetry /\ f.result.synced = 0)
      => /\ f.result = RetryResult(FALSE, 0)
         /\ pending = f.pendingAtStart

\* C7 as stated: variant A: the value retryPendingSaves() hands to the save
\* algorithm is the data of the entry queued last, the document of the save
\* that queued it.
C7_RetryPassesDocument ==
  \A s \in Slots :
    LET f == calls[s] IN
    (mode = "A" /\ f.op = "retry" /\ f.viaRetry)
      => f.data = f.pendingAtStart[Len(f.pendingAtStart)].data

\* C8: variant A: retryPendingSaves() with nothing queued returns {success:
\* true, synced: 0}, and with entries queued but no token {success: false,
\* synced: 0}; either way it makes no remote call and leaves the cache and
\* the queue as they were.
C8_RetryNoOps ==
  \A s \in Slots :
    LET f == calls[s] IN
    (mode = "A" /\ Done(s) /\ f.op = "retry"
       /\ (Len(f.pendingAtStart) = 0 \/ ~f.tokenAtStart))
      => /\ f.remoteCalls = 0
         /\ cache = f.cacheAtStart
         /\ pending = f.pendingAtStart
         /\ f.result = RetryResult(Len(f.pendingAtStart) = 0, 0)

\* C8 witness: a retry with entries queued and no token has returned.
C8_Witness ==
  \E s \in Slots :
    LET f == calls[s] IN
    /\ mode = "A" /\ Done(s) /\ f.op = "retry"
    /\ Len(f.pendingAtStart) = 2 /\ ~f.tokenAtStart /\ f.cacheAtStart.present

\* C9: variant A: save(d) with no token makes no remote call, leaves d in
\* the cache with the sha the cache held before (none if there was no cache
\* entry), adds one entry for d at the end of the queue, dropping the oldest
\* beyond 5, and returns success with the message that sync is deferred.
C9_SaveWithoutToken ==
  \A s \in Slots :
    LET f == calls[s]
        q0 == f.pendingAtStart
        n == Len(pending) IN
    (mode = "A" /\ Done(s) /\ f.op = "save" /\ ~f.tokenAtStart)
      => /\ f.remoteCalls = 0
         /\ cache.present /\ cache.data = f.data
         /\ cache.sha = IF f.cacheAtStart.present THEN f.cacheAtStart.sha ELSE NullSha
         /\ n = Min(Len(q0) + 1, 5)
         /\ pending[n].data = f.data
         /\ \A i \in 1..(n - 1) : pending[i] = q0[Len(q0) - (n - 1) + i]
         /\ f.result = SaveResult(TRUE, "notoken")

\* C9 witness: such a save has returned with the queue already full and a
\* sha in the cache.
C9_Witness ==
  \E s \in Slots :
    LET f == calls[s] IN
    /\ mode = "A" /\ Done(s) /\ f.op = "save" /\ ~f.tokenAtStart
    /\ Len(f.pendingAtStart) = 5
    /\ ~f.cacheAtStart.sha.null

\* C10: variant A: when save(d) with a token has read and written the
\* repository successfully, it returns success with no message and the
\* cache holds d with the sha the write returned; unless someone else has
\* written since, the file holds d and that sha is the file's.
C10_SaveSynced ==
  \A s \in Slots :
    LET f == calls[s] IN
    (mode = "A" /\ Done(s) /\ f.op = "save" /\ f.tokenAtStart
       /\ f.remoteCalls = 2 /\ WriteSucceeded(f))
      => /\ f.result = SaveResult(TRUE, "none")
         /\ cache.present /\ cache.data = f.data
         /\ cache.sha = f.resp.sha /\ ~cache.sha.null
         /\ ~f.disturbed =>
              /\ remote.exists
              /\ Utf8Decode(remote.bytes).ok
              /\ Utf8Decode(remote.bytes).val = f.data
              /\ cache.sha = ShaOf(remote.bytes)

\* C10 witness: such a save has replaced a file of another writer and no
\* one has written since.
C10_Witness ==
  \E s \in Slots :
    LET f == calls[s] IN
    /\ mode = "A" /\ Done(s) /\ f.op = "save" /\ f.tokenAtStart
    /\ WriteSucceeded(f) /\ ~f.disturbed
    /\ ~f.latestSha.null
    /\ ~f.cacheAtStart.present

\* What saveWorkoutData can return.
SaveResults ==
  {SaveResult(ok, e) : ok \in BOOLEAN, e \in {"none", "notoken", "syncfailed"}}

\* C11: in both variants a call of save(d) never ends in an exception: it
\* returns {success, error?}, success being false only in variant B and only
\* with an error; and whenever it reports an error, the cache still holds the
\* entry the call wrote for d before any network attempt.
C11_SaveNeverThrows ==
  \A s \in Slots :
    LET f == calls[s] IN
    f.op = "save" =>
      /\ f.pc # "threw"
      /\ Done(s) =>
           /\ f.result \in SaveResults
           /\ f.result.success = (mode = "A" \/ f.result.error = "none")
           /\ f.result.error # "none" =>
                cache.present /\ cache.data = f.data /\ cache = f.local

\* A save of variant A whose getFile threw, over a cache that held another
\* document, has returned.
C11_Witness ==
  \E s \in Slots :
    /\ mode = "A"
    /\ Done(s)
    /\ calls[s].op = "save"
    /\ calls[s].result = SaveResult(TRUE, "syncfailed")
    /\ calls[s].resp.kind = "error"
    /\ ~calls[s].wrote
    /\ calls[s].cacheAtStart.present

\* A save of variant B whose commitFile threw has returned.
C11_WitnessB ==
  \E s \in Slots :
    /\ mode = "B"
    /\ Done(s)
    /\ calls[s].op = "save"
    /\ calls[s].result = SaveResult(FALSE, "syncfailed")
    /\ calls[s].wrote

\* C12: variant A: init() with a token, whose read of the repository succeeds
\* with a file that holds the JSON text of a document under sha t, returns
\* that document and leaves it in the cache with sha t; the queue and the
\* file are as before.
C12_InitLoadsRemote ==
  \A s \in Slots :
    LET f == calls[s]
        c == Utf8Decode(f.resp.bytes) IN
    (mode = "A" /\ Done(s) /\ f.op = "init" /\ f.tokenAtStart
       /\ f.resp.kind = "ok" /\ JSONparses(c)) =>
      /\ f.result.data = JSONparse(c)
      /\ cache.present /\ cache.data = JSONparse(c) /\ cache.sha = f.resp.sha
      /\ pending = f.pendingAtStart
      /\ ~f.changed

\* C13: variant A: init() that finds no token makes no remote read, leaves
\* the cache as it is and, when the cache holds a document, returns it.
C13_InitNoToken ==
  \A s \in Slots :
    LET f == calls[s] IN
    (mode = "A" /\ Done(s) /\ f.op = "init" /\ ~f.tokenAtStart) =>
      /\ f.remoteCalls = 0
      /\ f.resp = NoResp
      /\ cache = f.cacheAtStart
      /\ f.cacheAtStart.present => f.result.data = f.cacheAtStart.data

\* init() without a token has returned the cached document while the
\* repository holds a file with other contents.
C13_Witness ==
  \E s \in Slots :
    /\ mode = "A"
    /\ Done(s)
    /\ calls[s].op = "init"
    /\ ~calls[s].tokenAtStart
    /\ calls[s].cacheAtStart.present
    /\ calls[s].result.data = cache.data
    /\ remote.exists
    /\ remote.bytes # Content(cache.data)

\* The remote read of init() was skipped or failed: no read, a thrown
\* getFile or fetch, a response that is not ok, a missing file, or contents
\* that do not parse.
ReadFailed(f) ==
  \/ f.remoteCalls = 0
  \/ f.resp.kind \in {"error", "notfound"}
  \/ f.resp.kind = "ok" /\ ~JSONparses(Utf8Decode(f.resp.bytes))

\* C14: in both variants init() never ends in an exception; when its remote
\* read is skipped or fails it returns the cached document if there is a
\* cache and the empty document otherwise, and the cache is as it was.
C14_InitNeverThrows ==
  \A s \in Slots :
    LET f == calls[s] IN
    f.op = "init" =>
      /\ f.pc # "threw"
      /\ (Done(s) /\ ReadFailed(f)) =>
           /\ cache = f.cacheAtStart
           /\ f.result = InitResult(IF f.cacheAtStart.present
                                      THEN f.cacheAtStart.data ELSE EmptyDocument)

\* Variant A read a file that does not parse and fell back to the cached
\* document.
C14_Witness ==
  \E s \in Slots :
    /\ mode = "A"
    /\ Done(s)
    /\ calls[s].op = "init"
    /\ calls[s].resp.kind = "ok"
    /\ ~JSONparses(Utf8Decode(calls[s].resp.bytes))
    /\ calls[s].cacheAtStart.present
    /\ calls[s].result.data = calls[s].cacheAtStart.data

\* Variant B could not fetch the file with no cache and returned the empty
\* document.
C14_WitnessB ==
  \E s \in Slots :
    /\ mode = "B"
    /\ Done(s)
    /\ calls[s].op = "init"
    /\ calls[s].resp.kind = "error"
    /\ ~calls[s].cacheAtStart.present
    /\ calls[s].result.data = EmptyDocument

\* C15: init() called twice in a row, both calls finding the same token and
\* getting the same answer to their read (or both making none), returns the
\* same document both times, and the queue after the second call is what it
\* was before the first.
C15_InitTwice ==
  \A s \in Slots :
    LET f == calls[s] IN
    (Done(s) /\ f.op = "init" /\ f.after.op = "init"
       /\ f.after.init.tok = f.tokenAtStart /\ f.after.init.resp = f.resp) =>
      /\ f.result.data = f.after.init.ret
      /\ pending = f.after.init.pend
      /\ pending = f.pendingAtStart

\* Two calls in a row of variant A read the same file while saves are
\* queued, over a cache that held another document before the first.
C15_Witness ==
  \E s \in Slots :
    /\ mode = "A"
    /\ Done(s)
    /\ calls[s].op = "init"
    /\ calls[s].after.op = "init"
    /\ calls[s].after.init.tok = calls[s].tokenAtStart
    /\ calls[s].after.init.resp = calls[s].resp
    /\ calls[s].resp.kind = "ok"
    /\ calls[s].result.data # EmptyDocument
    /\ pending # <<>>
    /\ pending[Len(pending)].data # calls[s].result.data

\* C16: variant B: save(d) that finds no token makes no remote read or write
\* and returns success false with an error, the cache holding d; and
\* variant B never has a pending queue.
C16_SaveNoTokenB ==
  mode = "B" =>
    /\ pending = <<>>
    /\ \A s \in Slots :
         LET f == calls[s] IN
         (Done(s) /\ f.op = "save" /\ ~f.tokenAtStart) =>
           /\ f.remoteCalls = 0
           /\ f.resp = NoResp
           /\ ~f.wrote
           /\ ~f.result.success
           /\ f.result.error # "none"
           /\ cache.present
           /\ cache.data = f.data

\* A save of variant B without a token has returned, over a cache that held
\* an earlier document.
C16_Witness ==
  \E s \in Slots :
    /\ mode = "B"
    /\ Done(s)
    /\ calls[s].op = "save"
    /\ ~calls[s].tokenAtStart
    /\ calls[s].result = SaveResult(FALSE, "notoken")
    /\ calls[s].cacheAtStart.present
    /\ calls[s].cacheAtStart.data # calls[s].data
    /\ cache.data = calls[s].data

\* C17: getSyncStatus() changes nothing.  In variant A it reports
\* pendingCount equal to the length of the queue, hasPending exactly when
\* that is positive, and lastSync equal to the cache's lastSync, null when
\* there is no cache; in variant B hasToken exactly when a token is present.
C17_SyncStatus ==
  /\ [](\A s \in Slots :
          LET f == calls[s] IN
          (Done(s) /\ f.op = "status") =>
            /\ mode = "A" =>
                 /\ f.status.pendingCount = Len(f.pendingAtStart)
                 /\ f.status.hasPending = (Len(f.pendingAtStart) > 0)
                 /\ f.status.lastSync.null = ~f.cacheAtStart.present
                 /\ f.cacheAtStart.present =>
                      f.status.lastSync.at = f.cacheAtStart.lastSync
            /\ mode = "B" => f.status.hasToken = f.tokenAtStart)
  /\ [][\A s \in Slots :
          (calls'[s].op = "status" /\ calls'[s] # calls[s]) =>
            /\ UNCHANGED <<token, authToken, cache, pending, remote, now>>
            /\ \A r \in Slots \ {s} : calls'[r] = calls[r]]_vars

\* Variant A reported two queued saves and the time of the cache while a
\* save was pending.
C17_Witness ==
  \E s, r \in Slots :
    /\ mode = "A"
    /\ Done(s)
    /\ calls[s].op = "status"
    /\ calls[s].status.pendingCount = 2
    /\ calls[s].status.hasPending
    /\ ~calls[s].status.lastSync.null
    /\ calls[r].op = "save"
    /\ Active(r)

\* Variant B reported a token and, with no cache, a null lastSync.
C17_WitnessB ==
  \E s \in Slots :
    /\ mode = "B"
    /\ Done(s)
    /\ calls[s].op = "status"
    /\ calls[s].status.hasToken
    /\ calls[s].status.lastSync.null

\* C18: two saves that overlap and send the same sha, read before either
\* wrote: at most one of the two writes replaces the file; a write that
\* arrives after the one that replaced the file is refused for its stale
\* sha, changes nothing and ends in an error; and in variant A the refused
\* save, when it returns, has put its document at the end of the queue.
C18_OverlappingWrites ==
  /\ [](\A s, r \in Slots :
          LET f == calls[s]
              g == calls[r] IN
          (s # r /\ f.op = "save" /\ g.op = "save" /\ f.wrote /\ g.wrote
             /\ f.latestSha = g.latestSha) =>
            /\ ~(f.changed /\ g.changed)
            /\ (f.changed /\ ~g.disturbed) =>
                 /\ g.stale
                 /\ g.resp.kind = "error"
                 /\ (Done(r) => g.result.error = "syncfailed"))
  /\ [][\A s \in Slots :
          (mode = "A" /\ calls[s].op = "save" /\ calls[s].pc = "committed"
             /\ calls[s].stale /\ calls'[s].pc = "done") =>
            /\ Len(pending') > 0
            /\ pending'[Len(pending')].data = calls[s].data]_vars

\* Variant A: both saves have returned; they sent the same sha, one replaced
\* the file, the other was refused and its document is in the queue.
C18_Witness ==
  \E s, r \in Slots :
    /\ mode = "A"
    /\ s # r
    /\ Done(s) /\ Done(r)
    /\ calls[s].op = "save" /\ calls[r].op = "save"
    /\ calls[s].latestSha = calls[r].latestSha
    /\ calls[s].changed
    /\ calls[r].wrote /\ calls[r].stale /\ ~calls[r].changed
    /\ remote = File(Content(calls[s].data))
    /\ pending # <<>>
    /\ pending[Len(pending)].data = calls[r].data

\* C20: variant A: save(d1) was started and then, before its remote calls
\* had returned, save(d2); once both have returned, and no later save has
\* started, the document in the cache is d2.
C20_LatestSaveWins ==
  \A s, r \in Slots :
    LET f == calls[s]
        g == calls[r] IN
    (mode = "A" /\ s < r /\ Done(s) /\ Done(r)
       /\ f.op = "save" /\ g.op = "save" /\ f.data.doc < g.data.doc
       /\ \A q \in Slots : calls[q].op = "save" => calls[q].data.doc <= g.data.doc) =>
      /\ cache.present
      /\ cache.data = g.data

\* A call of retryPendingSaves has returned {success: true, synced: 1}.
RetrySynced ==
  \E s \in Slots :
    /\ Done(s)
    /\ calls[s].op = "retry"
    /\ calls[s].result = RetryResult(TRUE, 1)

LastCallerSave ==
  LET inFlight == {s \in Slots : Active(s) /\ calls[s].op = "save"}
      plain == {i \in 1..Len(enqLog) : IsDocument(enqLog[i].data)}
  IN IF inFlight # {}
       THEN calls[CHOOSE s \in inFlight : TRUE].data
       ELSE IF plain # {}
         THEN enqLog[CHOOSE i \in plain : \A j \in plain : j <= i].data
         ELSE EmptyDocument

\* C21: variant A, one operation at a time: whenever the queue is not empty,
\* the document in the cache is the one passed to the most recent save() the
\* caller issued; neither init() nor retryPendingSaves() replaces it.
C21_CacheHoldsLastSave ==
  (mode = "A" /\ pending # <<>>) =>
    /\ cache.present
    /\ cache.data = LastCallerSave

====
